---- MODULE Spec2Model ----
(***************************************************************************)
(* Model of the briefing pipeline of get_weather.py: the module-level      *)
(* Gemini configuration, the two weather fetches, the summary composer     *)
(* with its fallback documents, and the /briefing request handler.         *)
(*                                                                         *)
(* One worker handles one request at a time; nothing but the `model`       *)
(* handle and the environment survives a request.  External collaborators  *)
(* (the weather source, the generative-AI library) are modelled by the     *)
(* outcomes the code distinguishes: a fetch returns a JSON array of        *)
(* report objects or raises requests.exceptions.RequestException; the      *)
(* library's configure/constructor returns or raises; generate_content     *)
(* returns a response, raises, or returns a response whose .text raises.   *)
(***************************************************************************)
EXTENDS Integers, Sequences, FiniteSets, TLC

VARIABLES
    GEMINI_API_KEY,   \* os.getenv("GEMINI_API_KEY"): NoKey when the variable is unset
    model,            \* module global `model`: None or the GenerativeModel handle
    pc,               \* position of the worker inside get_briefing
    icao_codes_str,   \* local of get_briefing
    metar_reports,    \* local of get_briefing
    taf_reports,      \* local of get_briefing
    summary,          \* local of get_briefing
    response,         \* what the caller of /briefing receives (NoResponse while running)
    trace             \* history of this request: the calls made so far, with what they returned

vars == <<GEMINI_API_KEY, model, pc, icao_codes_str, metar_reports, taf_reports,
          summary, response, trace>>

(***************************************************************************)
(* Bounds of the model.                                                    *)
(***************************************************************************)
MaxMetars == 3
MaxTafs == 2

(***************************************************************************)
(* Python values.                                                          *)
(***************************************************************************)
None == "None"
Handle == "GenerativeModel('gemini-2.5-flash')"
NoKey == "<unset>"
NoResponse == [status |-> 0, body |-> <<>>]

\* dict.get(k, default)
Get(d, k, default) == IF k \in DOMAIN d THEN d[k] ELSE default

\* truth value of a str (or of the None that dict.get(k) yields for a missing
\* key, which Get renders as ""): only the empty string is falsy
Truthy(s) == s # ""

\* sep.join(strs)
RECURSIVE Join(_, _)
Join(strs, sep) ==
    IF Len(strs) = 0 THEN ""
    ELSE IF Len(strs) = 1 THEN strs[1]
    ELSE strs[1] \o sep \o Join(Tail(strs), sep)

(***************************************************************************)
(* Inputs: the query string, and the JSON arrays the weather source can    *)
(* answer with.  A report object is a dict; keys may be missing.           *)
(***************************************************************************)
QueryArgs ==
    { [k \in {} |-> ""],            \* /briefing
      [codes |-> ""],               \* /briefing?codes=
      [codes |-> "KJFK,KBOS"] }     \* /briefing?codes=KJFK,KBOS

MetarRecords ==
    { [stationId |-> "KJFK", rawOb |-> "KJFK 041851Z 28012KT 10SM FEW250 12/M03 A3012"],
      [stationId |-> "KBOS", rawOb |-> "KBOS 041854Z 30015G25KT 10SM SCT060 10/M04 A3005"],
      [stationId |-> "KJFK"],
      [stationId |-> "", rawOb |-> ""],
      [icaoId |-> "KBOS", rawOb |-> "KBOS 041854Z 30015G25KT 10SM SCT060 10/M04 A3005"],
      [icaoId |-> "KJFK"] }

TafRecords ==
    { [icaoId |-> "KJFK", rawTAF |-> "TAF KJFK 041730Z 0418/0524 28012KT P6SM FEW250"],
      [icaoId |-> "KBOS"] }

SeqsUpTo(S, n) == UNION { [1..k -> S] : k \in 0..n }

MetarPayloads == SeqsUpTo(MetarRecords, MaxMetars)
TafPayloads == SeqsUpTo(TafRecords, MaxTafs)

\* what requests.get(...) / raise_for_status() can do
FetchOutcomes == {"ok", "http_error", "transport_error"}

\* what model.generate_content(prompt) / response.text can do
InvokeOutcomes == {"text", "generate_content_raises", "text_raises"}

AIText == "<div class=\"briefing-content\">(markup written by the AI backend)</div>"

(***************************************************************************)
(* Module-level configuration (lines 19-26).  The key read from the        *)
(* environment is handed to the library unexamined; `model` becomes None   *)
(* only when genai.configure or the GenerativeModel constructor raises.    *)
(***************************************************************************)
ConfigureGemini(api_key, library_raises) ==
    IF library_raises THEN None ELSE Handle

(***************************************************************************)
(* get_metar_data / get_taf_data: the value returned to get_briefing, or   *)
(* an exception leaving the function.                                      *)
(***************************************************************************)
Returned(v) == [raised |-> FALSE, value |-> v]
Raised == [raised |-> TRUE, value |-> <<>>]

\* variant: the RequestException is not caught
get_metar_data_uncaught(outcome, payload) ==
    IF outcome = "ok" THEN Returned(payload) ELSE Raised

get_metar_data(outcome, payload) ==
    IF outcome = "ok" THEN Returned(payload)   \* return response.json()
    ELSE Returned(<<>>)                        \* except RequestException: return []

get_taf_data(outcome, payload) ==
    IF outcome = "ok" THEN Returned(payload)
    ELSE Returned(<<>>)

(***************************************************************************)
(* A document is a sequence of segments.  A "markup" segment is part of    *)
(* the fixed HTML skeleton, a "text" segment is the content of a <td> or   *)
(* of the <ul>.                                                            *)
(***************************************************************************)
M(s) == [k |-> "markup", s |-> s]
T(s) == [k |-> "text", s |-> s]

Skeleton(doc) == SelectSeq(doc, LAMBDA seg : seg.k = "markup")
BodyText(doc) == SelectSeq(doc, LAMBDA seg : seg.k = "text")

\* variant: station ids deduplicated, as the prompt's airport directory does
\* (line 88), instead of kept as they come
IcaoCodesDistinct(metars) ==
    LET kept == SelectSeq(metars, LAMBDA m : Truthy(Get(m, "stationId", "")))
        ids == [i \in 1..Len(kept) |-> Get(kept[i], "stationId", "")]
        first == { i \in 1..Len(ids) : \A j \in 1..(i - 1) : ids[j] # ids[i] }
        RECURSIVE Pick(_)
        Pick(i) == IF i > Len(ids) THEN <<>>
                   ELSE IF i \in first THEN <<ids[i]>> \o Pick(i + 1)
                   ELSE Pick(i + 1)
    IN  Pick(1)

\* [m.get('stationId', '') for m in metars if m.get('stationId')]  (lines 58 and 134)
IcaoCodes(metars) ==
    LET kept == SelectSeq(metars, LAMBDA m : Truthy(Get(m, "stationId", "")))
    IN  [i \in 1..Len(kept) |-> Get(kept[i], "stationId", "")]

\* lines 58-59
FallbackRoute1(metars) ==
    LET icao_codes == IcaoCodes(metars)
    IN  IF Len(icao_codes) > 0 THEN Join(icao_codes, " → ") ELSE "Unknown route"

\* lines 134-135
FallbackRoute2(metars) ==
    LET icao_codes == IcaoCodes(metars)
    IN  IF Len(icao_codes) > 0 THEN Join(icao_codes, " → ") ELSE "Unknown route"

\* lines 61-78
FallbackUnavailable(route) ==
    << M("\n<div class=\"briefing-content\">\n"
         \o "  <table class=\"briefing-table\">\n"
         \o "    <tr><th>Route Summary</th><td>"),
       T("Weather briefing for "),
       T(route),
       T(". Conditions appear favorable for flight operations."),
       M("</td></tr>\n"
         \o "    <tr><th>Recommendations</th><td>"),
       T("Monitor weather conditions and maintain standard flight procedures."),
       M("</td></tr>\n"
         \o "  </table>\n"
         \o "  \n"
         \o "  <div class=\"per-airport-section\">\n"
         \o "    <button class=\"read-more-btn\" onclick=\"togglePerAirport()\">Read More >></button>\n"
         \o "    <div class=\"per-airport-content\" style=\"display:none;\">\n"
         \o "      <h3>Per-Airport Conditions</h3>\n"
         \o "      <ul>\n"),
       T("        <li><strong>Note</strong>: AI weather analysis unavailable. "
         \o "Please check official weather sources.</li>\n"),
       M("      </ul>\n"
         \o "    </div>\n"
         \o "  </div>\n"
         \o "</div>\n"
         \o "        ") >>

\* variant: the error path answers with a plain string, as line 84 does
FallbackOnErrorPlain(route) ==
    << T("AI weather analysis temporarily unavailable for " \o route \o ".") >>

\* lines 137-154
FallbackOnError(route) ==
    << M("\n<div class=\"briefing-content\">\n"
         \o "  <table class=\"briefing-table\">\n"
         \o "    <tr><th>Route Summary</th><td>"),
       T("Weather briefing for "),
       T(route),
       T(". Please check official weather sources for current conditions."),
       M("</td></tr>\n"
         \o "    <tr><th>Recommendations</th><td>"),
       T("Monitor weather conditions and maintain standard flight procedures."),
       M("</td></tr>\n"
         \o "  </table>\n"
         \o "  \n"
         \o "  <div class=\"per-airport-section\">\n"
         \o "    <button class=\"read-more-btn\" onclick=\"togglePerAirport()\">Read More >></button>\n"
         \o "    <div class=\"per-airport-content\" style=\"display:none;\">\n"
         \o "      <h3>Per-Airport Conditions</h3>\n"
         \o "      <ul>\n"),
       T("        <li><strong>Note</strong>: AI weather analysis temporarily unavailable. "
         \o "Please check official weather sources.</li>\n"),
       M("      </ul>\n"
         \o "    </div>\n"
         \o "  </div>\n"
         \o "</div>\n"
         \o "        ") >>

\* line 84: a plain string, no markup at all
NotEnoughData == << T("Not enough data to generate a summary.") >>

\* line 80: "\n".join([m.get('rawOb', '') for m in metars])
MetarTexts(metars) ==
    Join([i \in 1..Len(metars) |-> Get(metars[i], "rawOb", "")], "\n")

\* line 81: "\n".join([t.get('rawTAF', '') for t in tafs])
TafTexts(tafs) ==
    Join([i \in 1..Len(tafs) |-> Get(tafs[i], "rawTAF", "")], "\n")

\* line 89
WeatherData(metar_texts, taf_texts) ==
    "METARs:\n" \o metar_texts \o "\nTAFs:\n" \o taf_texts

\* variant: the empty-data test (line 83) before the `not model` test (line 56)
ComposeEmptyCheckFirst(mdl, metars, tafs) ==
    LET metar_texts == MetarTexts(metars)
        taf_texts == TafTexts(tafs)
    IN  IF ~Truthy(metar_texts) /\ ~Truthy(taf_texts)
        THEN [returned |-> TRUE, value |-> NotEnoughData]
        ELSE IF mdl = None
        THEN [returned |-> TRUE, value |-> FallbackUnavailable(FallbackRoute1(metars))]
        ELSE [returned |-> FALSE,
              value |-> << T(WeatherData(metar_texts, taf_texts)) >>]

\* variant: the empty-data test (line 83) with its second `not` dropped: it
\* fires only when the METAR block is empty and the TAF block is not
ComposeEmptyCheckWrong(mdl, metars, tafs) ==
    IF mdl = None
    THEN [returned |-> TRUE, value |-> FallbackUnavailable(FallbackRoute1(metars))]
    ELSE LET metar_texts == MetarTexts(metars)
             taf_texts == TafTexts(tafs)
         IN  IF ~Truthy(metar_texts) /\ Truthy(taf_texts)
             THEN [returned |-> TRUE, value |-> NotEnoughData]
             ELSE [returned |-> FALSE,
                   value |-> << T(WeatherData(metar_texts, taf_texts)) >>]

(***************************************************************************)
(* generate_summary_with_gemini up to the AI call (lines 56-126): either   *)
(* it has returned a document, or it is about to call generate_content.    *)
(* The prompt is represented by its weather_data part.                     *)
(***************************************************************************)
ComposeUntilInvoke(mdl, metars, tafs) ==
    IF mdl = None                                                \* if not model:
    THEN [returned |-> TRUE, value |-> FallbackUnavailable(FallbackRoute1(metars))]
    ELSE LET metar_texts == MetarTexts(metars)
             taf_texts == TafTexts(tafs)
         IN  IF ~Truthy(metar_texts) /\ ~Truthy(taf_texts)       \* line 83
             THEN [returned |-> TRUE, value |-> NotEnoughData]
             ELSE [returned |-> FALSE,
                   value |-> << T(WeatherData(metar_texts, taf_texts)) >>]

(***************************************************************************)
(* The try/except around the AI call (lines 128-154).                      *)
(***************************************************************************)
\* variant: no handler around the call
ComposeAfterInvokeUnhandled(outcome, metars) ==
    IF outcome = "text" THEN Returned(<< T(AIText) >>) ELSE Raised

ComposeAfterInvoke(outcome, metars) ==
    IF outcome = "text"
    THEN Returned(<< T(AIText) >>)                               \* return response.text
    ELSE Returned(FallbackOnError(FallbackRoute2(metars)))       \* except Exception

(***************************************************************************)
(* get_briefing (lines 163-181), one step per call it makes.               *)
(***************************************************************************)
\* variant: only an absent parameter is rejected, an empty one is not
MissingCodesAbsentOnly(args) == "codes" \notin DOMAIN args

\* line 167: if not icao_codes_str
MissingCodes(args) == ~Truthy(Get(args, "codes", ""))

ClientError == [status |-> 400, body |-> [error |-> "No ICAO codes provided"]]
\* an exception that leaves the view function: the framework answers 500
ServerError == [status |-> 500, body |-> [error |-> "Internal Server Error"]]

Event(op, outcome, ret) == [op |-> op, outcome |-> outcome, ret |-> ret]

Init ==
    /\ GEMINI_API_KEY \in {NoKey, "key"}
    /\ \E library_raises \in BOOLEAN :
           model = ConfigureGemini(GEMINI_API_KEY, library_raises)
    /\ pc = "idle"
    /\ icao_codes_str = ""
    /\ metar_reports = <<>>
    /\ taf_reports = <<>>
    /\ summary = <<>>
    /\ response = NoResponse
    /\ trace = <<>>

\* a request arrives; lines 166-168
Request ==
    /\ pc \in {"idle", "done"}
    /\ \E args \in QueryArgs :
        /\ icao_codes_str' = Get(args, "codes", "")
        /\ IF MissingCodes(args)
           THEN response' = ClientError /\ pc' = "done"
           ELSE response' = NoResponse /\ pc' = "fetch_metar"
    /\ metar_reports' = <<>>
    /\ taf_reports' = <<>>
    /\ summary' = <<>>
    /\ trace' = <<>>
    /\ UNCHANGED <<GEMINI_API_KEY, model>>

\* variant: when the METAR fetch comes back empty the TAF fetch is skipped
FetchMetarThenSkipTaf ==
    /\ pc = "fetch_metar"
    /\ \E outcome \in FetchOutcomes, payload \in MetarPayloads :
        LET r == get_metar_data(outcome, payload)
        IN  /\ trace' = Append(trace, Event("get_metar_data", outcome, r.value))
            /\ metar_reports' = r.value
            /\ pc' = IF r.value = <<>> THEN "compose" ELSE "fetch_taf"
    /\ UNCHANGED <<GEMINI_API_KEY, model, icao_codes_str, taf_reports, summary, response>>

\* line 170
FetchMetar ==
    /\ pc = "fetch_metar"
    /\ \E outcome \in FetchOutcomes, payload \in MetarPayloads :
        LET r == get_metar_data(outcome, payload)
        IN  /\ trace' = Append(trace, Event("get_metar_data", outcome, r.value))
            /\ IF r.raised
               THEN response' = ServerError /\ pc' = "done"
                    /\ UNCHANGED metar_reports
               ELSE metar_reports' = r.value /\ pc' = "fetch_taf"
                    /\ UNCHANGED response
    /\ UNCHANGED <<GEMINI_API_KEY, model, icao_codes_str, taf_reports, summary>>

\* line 171
FetchTaf ==
    /\ pc = "fetch_taf"
    /\ \E outcome \in FetchOutcomes, payload \in TafPayloads :
        LET r == get_taf_data(outcome, payload)
        IN  /\ trace' = Append(trace, Event("get_taf_data", outcome, r.value))
            /\ IF r.raised
               THEN response' = ServerError /\ pc' = "done"
                    /\ UNCHANGED taf_reports
               ELSE taf_reports' = r.value /\ pc' = "compose"
                    /\ UNCHANGED response
    /\ UNCHANGED <<GEMINI_API_KEY, model, icao_codes_str, metar_reports, summary>>

\* line 173, up to the return or the AI call
Compose ==
    /\ pc = "compose"
    /\ LET r == ComposeUntilInvoke(model, metar_reports, taf_reports)
       IN  /\ trace' = Append(trace, Event("generate_summary_with_gemini", "called", <<>>))
           /\ IF r.returned
              THEN summary' = r.value /\ pc' = "assemble"
              ELSE UNCHANGED summary /\ pc' = "invoke"
    /\ UNCHANGED <<GEMINI_API_KEY, model, icao_codes_str, metar_reports, taf_reports,
                   response>>

\* lines 128-154: the one call of model.generate_content and its handler
InvokeAI ==
    /\ pc = "invoke"
    /\ \E outcome \in InvokeOutcomes :
        LET r == ComposeAfterInvoke(outcome, metar_reports)
        IN  /\ trace' = Append(trace, Event("generate_content", outcome, <<>>))
            /\ IF r.raised
               THEN response' = ServerError /\ pc' = "done"
                    /\ UNCHANGED summary
               ELSE summary' = r.value /\ pc' = "assemble"
                    /\ UNCHANGED response
    /\ UNCHANGED <<GEMINI_API_KEY, model, icao_codes_str, metar_reports, taf_reports>>

\* lines 175-181
Assemble ==
    /\ pc = "assemble"
    /\ response' = [status |-> 200,
                    body |-> [summary |-> summary,
                              metar_reports |-> metar_reports,
                              taf_reports |-> taf_reports]]
    /\ trace' = Append(trace, Event("jsonify", "ok", <<>>))
    /\ pc' = "done"
    /\ UNCHANGED <<GEMINI_API_KEY, model, icao_codes_str, metar_reports, taf_reports,
                   summary>>

Next == Request \/ FetchMetar \/ FetchTaf \/ Compose \/ InvokeAI \/ Assemble

Spec == Init /\ [][Next]_vars

(***************************************************************************)
(* Vocabulary of the properties.                                           *)
(***************************************************************************)
Ops == [i \in 1..Len(trace) |-> trace[i].op]
Calls(op) == { i \in 1..Len(trace) : trace[i].op = op }
AICalls == Cardinality(Calls("generate_content"))
NetworkCalls ==
    Cardinality(Calls("get_metar_data") \cup Calls("get_taf_data")
                \cup Calls("generate_content"))
Answered == pc = "done" /\ response.status = 200
AIRaised == \E i \in Calls("generate_content") : trace[i].outcome # "text"
Failed(op) == \E i \in Calls(op) : trace[i].outcome # "ok"

IsPrefix(p, q) == Len(p) <= Len(q) /\ \A i \in 1..Len(p) : p[i] = q[i]

PipelineWithoutAI ==
    << "get_metar_data", "get_taf_data", "generate_summary_with_gemini", "jsonify" >>
PipelineWithAI ==
    << "get_metar_data", "get_taf_data", "generate_summary_with_gemini",
       "generate_content", "jsonify" >>

\* The route label as the specification words it: the stationId of every
\* record, in input order, empty and missing ones dropped, joined left to right.
StationIdOf(m) == IF "stationId" \in DOMAIN m THEN m.stationId ELSE ""
StationIdsInOrder(metars) ==
    SelectSeq([i \in 1..Len(metars) |-> StationIdOf(metars[i])], LAMBDA id : id # "")
RECURSIVE ArrowJoin(_, _)
ArrowJoin(ids, n) ==
    IF n = 1 THEN ids[1] ELSE ArrowJoin(ids, n - 1) \o " → " \o ids[n]
ExpectedRouteLabel(metars) ==
    LET ids == StationIdsInOrder(metars)
    IN  IF ids = <<>> THEN "Unknown route" ELSE ArrowJoin(ids, Len(ids))

\* The text blocks as the specification words them: only the non-empty raw
\* texts, newline-joined.
RawTextsPresent(reports, key) ==
    SelectSeq([i \in 1..Len(reports) |->
                  IF key \in DOMAIN reports[i] THEN reports[i][key] ELSE ""],
              LAMBDA raw : raw # "")
RECURSIVE NewlineJoin(_, _)
NewlineJoin(texts, n) ==
    IF n = 0 THEN ""
    ELSE IF n = 1 THEN texts[1]
    ELSE NewlineJoin(texts, n - 1) \o "\n" \o texts[n]
ExpectedBlock(reports, key) ==
    LET texts == RawTextsPresent(reports, key) IN NewlineJoin(texts, Len(texts))

\* The fixed skeleton of section 6 of the specification, as the markup of a document.
SkeletonMarkup ==
    << M("\n<div class=\"briefing-content\">\n"
         \o "  <table class=\"briefing-table\">\n"
         \o "    <tr><th>Route Summary</th><td>"),
       M("</td></tr>\n"
         \o "    <tr><th>Recommendations</th><td>"),
       M("</td></tr>\n"
         \o "  </table>\n"
         \o "  \n"
         \o "  <div class=\"per-airport-section\">\n"
         \o "    <button class=\"read-more-btn\" onclick=\"togglePerAirport()\">Read More >></button>\n"
         \o "    <div class=\"per-airport-content\" style=\"display:none;\">\n"
         \o "      <h3>Per-Airport Conditions</h3>\n"
         \o "      <ul>\n"),
       M("      </ul>\n"
         \o "    </div>\n"
         \o "  </div>\n"
         \o "</div>\n"
         \o "        ") >>

HasText(doc, s) == \E i \in 1..Len(doc) : doc[i] = T(s)
\* the segments of a document from the first text segment of the Route Summary cell
RouteSummaryCell(doc) ==
    LET cell == { i \in 2..Len(doc) : doc[i - 1].k = "markup" /\ doc[i].k = "text" }
        first == CHOOSE i \in cell : \A j \in cell : i <= j
    IN  SubSeq(doc, first, first + 2)

IsCase1Document(doc, metars) ==
    /\ Skeleton(doc) = SkeletonMarkup
    /\ RouteSummaryCell(doc) =
           << T("Weather briefing for "), T(ExpectedRouteLabel(metars)),
              T(". Conditions appear favorable for flight operations.") >>
    /\ HasText(doc, "        <li><strong>Note</strong>: AI weather analysis unavailable. "
                    \o "Please check official weather sources.</li>\n")

IsCase2Document(doc, metars) ==
    /\ Skeleton(doc) = SkeletonMarkup
    /\ RouteSummaryCell(doc) =
           << T("Weather briefing for "), T(ExpectedRouteLabel(metars)),
              T(". Please check official weather sources for current conditions.") >>
    /\ HasText(doc, "        <li><strong>Note</strong>: AI weather analysis temporarily "
                    \o "unavailable. Please check official weather sources.</li>\n")

(***************************************************************************)
(* C1.  A request with non-empty codes ends, whatever the external calls   *)
(* did, with the three-field answer; the only error a caller ever sees is  *)
(* the missing-codes client error, and a running request can always take   *)
(* its next step.                                                          *)
(***************************************************************************)
C1_OnlyMissingCodesIsAnError ==
    /\ response.status \in {0, 200, 400}
    /\ response.status = 400 => icao_codes_str = "" /\ response = ClientError
    /\ (pc = "done" /\ icao_codes_str # "") =>
           /\ response.status = 200
           /\ DOMAIN response.body = {"summary", "metar_reports", "taf_reports"}
    /\ pc \notin {"idle", "done"} => ENABLED Next

\* the METAR fetch failed and the AI call raised, and the request was still answered
C1_Witness ==
    /\ Answered
    /\ Failed("get_metar_data")
    /\ AIRaised

(***************************************************************************)
(* C2.  A request whose codes parameter is empty or absent gets the 400    *)
(* client error and no network call is made for it.                        *)
(***************************************************************************)
C2_MissingCodesNoNetwork ==
    (pc # "idle" /\ icao_codes_str = "") =>
        /\ pc = "done"
        /\ response = ClientError
        /\ NetworkCalls = 0
        /\ trace = <<>>

C2_Witness == pc = "done" /\ icao_codes_str = "" /\ response.status = 400

(***************************************************************************)
(* C3 as stated.  Whenever both text blocks are empty, configured backend  *)
(* or not, the summary is the "not enough data" string and the AI backend  *)
(* is not invoked.                                                         *)
(***************************************************************************)
C3_EmptyDataBeforeUnconfigured ==
    (Answered /\ MetarTexts(metar_reports) = "" /\ TafTexts(taf_reports) = "") =>
        /\ response.body.summary = NotEnoughData
        /\ AICalls = 0

(***************************************************************************)
(* C3 amended.  When both text blocks are empty the AI backend is never    *)
(* invoked; the summary is the "not enough data" string if the backend is  *)
(* configured, and the case-1 fallback document if it is not (the          *)
(* unconfigured test comes first).                                         *)
(***************************************************************************)
C3_EmptyDataWhenConfigured ==
    (Answered /\ MetarTexts(metar_reports) = "" /\ TafTexts(taf_reports) = "") =>
        /\ AICalls = 0
        /\ model # None => response.body.summary = NotEnoughData
        /\ model = None => IsCase1Document(response.body.summary, metar_reports)

\* records arrived, none with raw text, backend configured
C3_Witness ==
    /\ Answered
    /\ model # None
    /\ Len(metar_reports) > 0
    /\ MetarTexts(metar_reports) = "" /\ TafTexts(taf_reports) = ""
    /\ response.body.summary = NotEnoughData

(***************************************************************************)
(* C4.  With the AI backend unconfigured, every answer carries the case-1  *)
(* fallback document with the route label of the METARs' stationIds in     *)
(* input order ("Unknown route" without any), and the AI backend is not    *)
(* invoked.                                                                *)
(***************************************************************************)
C4_UnconfiguredGivesCase1 ==
    (model = None /\ pc \in {"assemble", "done"} /\ icao_codes_str # "") =>
        /\ IsCase1Document(summary, metar_reports)
        /\ AICalls = 0
        /\ pc = "done" => response.status = 200 /\ response.body.summary = summary

\* unconfigured, no data at all: still the case-1 document, with "Unknown route"
C4_Witness ==
    /\ Answered
    /\ model = None
    /\ metar_reports = <<>> /\ taf_reports = <<>>
    /\ HasText(response.body.summary, "Unknown route")

(***************************************************************************)
(* C5.  When the configured AI backend raises, the summary is the case-2   *)
(* fallback document: same skeleton as case 1, other body text, the route  *)
(* label in input order; the backend was called once, not twice.           *)
(***************************************************************************)
C5_InvocationErrorGivesCase2 ==
    AIRaised =>
        /\ model # None
        /\ AICalls = 1
        /\ pc \in {"assemble", "done"}
        /\ IsCase2Document(summary, metar_reports)
        /\ Skeleton(summary) = Skeleton(FallbackUnavailable(FallbackRoute1(metar_reports)))
        /\ BodyText(summary) # BodyText(FallbackUnavailable(FallbackRoute1(metar_reports)))
        /\ Len(summary) = Len(FallbackUnavailable(FallbackRoute1(metar_reports)))
        /\ pc = "done" => response.status = 200 /\ response.body.summary = summary

C5_Witness ==
    /\ Answered
    /\ \E i \in Calls("generate_content") : trace[i].outcome = "generate_content_raises"
    /\ Len(StationIdsInOrder(metar_reports)) >= 2

(***************************************************************************)
(* C6.  A fetch that meets a non-success status or a transport failure     *)
(* returns the empty sequence; when both do, the answer is status 200 with *)
(* two empty report arrays; and the report arrays of every answer are what *)
(* the two fetches returned.                                               *)
(***************************************************************************)
C6_FetchFailsSoft ==
    /\ \A i \in Calls("get_metar_data") \cup Calls("get_taf_data") :
           trace[i].outcome # "ok" => trace[i].ret = <<>>
    /\ (pc = "done" /\ Failed("get_metar_data")) => Calls("get_taf_data") # {}
    /\ (pc = "done" /\ Failed("get_metar_data") /\ Failed("get_taf_data")) =>
           /\ response.status = 200
           /\ response.body.metar_reports = <<>>
           /\ response.body.taf_reports = <<>>
    /\ Answered =>
           /\ \A i \in Calls("get_metar_data") : response.body.metar_reports = trace[i].ret
           /\ \A i \in Calls("get_taf_data") : response.body.taf_reports = trace[i].ret
           /\ Calls("get_metar_data") # {} /\ Calls("get_taf_data") # {}

C6_Witness ==
    /\ Answered
    /\ \E i \in Calls("get_metar_data") : trace[i].outcome = "http_error"
    /\ \E i \in Calls("get_taf_data") : trace[i].outcome = "http_error"
    /\ response.body.metar_reports = <<>> /\ response.body.taf_reports = <<>>

(***************************************************************************)
(* C7.  The calls of a request happen in the order METAR fetch, TAF fetch, *)
(* compose, (at most one AI call,) response assembly, each once; the TAF   *)
(* fetch and compose happen also after failed fetches.                     *)
(***************************************************************************)
C7_PipelineOrder ==
    /\ IsPrefix(Ops, PipelineWithoutAI) \/ IsPrefix(Ops, PipelineWithAI)
    /\ (pc = "done" /\ icao_codes_str # "") => Ops \in {PipelineWithoutAI, PipelineWithAI}
    /\ pc = "fetch_taf" => Ops = << "get_metar_data" >>
    /\ pc = "compose" => Ops = << "get_metar_data", "get_taf_data" >>

\* both fetches failed, compose was still called
C7_Witness ==
    /\ Answered
    /\ Failed("get_metar_data") /\ Failed("get_taf_data")
    /\ Calls("generate_summary_with_gemini") # {}

(***************************************************************************)
(* C8.  The route label of a fallback document is the non-empty stationIds *)
(* in input order, duplicates kept, joined by " → "; it is "Unknown route" *)
(* exactly when no record has a stationId; both fallback paths derive the  *)
(* same label.                                                             *)
(***************************************************************************)
C8_RouteLabel ==
    (pc \in {"assemble", "done"} /\ icao_codes_str # "" /\ (model = None \/ AIRaised)) =>
        LET label == RouteSummaryCell(summary)[2].s
        IN  /\ label = ExpectedRouteLabel(metar_reports)
            /\ label = "Unknown route" <=>
                   \A i \in 1..Len(metar_reports) : StationIdOf(metar_reports[i]) = ""
            /\ FallbackRoute1(metar_reports) = label
            /\ FallbackRoute2(metar_reports) = label
            /\ StationIdsInOrder(metar_reports) = << "KJFK", "KBOS", "KJFK" >> =>
                   label = "KJFK → KBOS → KJFK"

\* the example of the specification, on the error path
C8_Witness ==
    /\ Answered
    /\ AIRaised
    /\ StationIdsInOrder(metar_reports) = << "KJFK", "KBOS", "KJFK" >>
    /\ HasText(response.body.summary, "KJFK → KBOS → KJFK")

(***************************************************************************)
(* C9 as stated.  Without the credential the backend counts as             *)
(* unconfigured: every answer is the case-1 document and the AI backend is *)
(* never invoked.                                                          *)
(***************************************************************************)
C9_NoCredentialMeansUnconfigured ==
    GEMINI_API_KEY = NoKey =>
        /\ AICalls = 0
        /\ Answered => IsCase1Document(response.body.summary, metar_reports)

(***************************************************************************)
(* C10 as stated.  Each text block is the newline-join of the non-empty    *)
(* raw texts only, so reports that all lack raw text give empty blocks and *)
(* the AI backend is not invoked for them.                                 *)
(***************************************************************************)
C10_BlocksSkipEmptyRawText ==
    pc \in {"compose", "invoke", "assemble", "done"} =>
        /\ MetarTexts(metar_reports) = ExpectedBlock(metar_reports, "rawOb")
        /\ TafTexts(taf_reports) = ExpectedBlock(taf_reports, "rawTAF")
        /\ (RawTextsPresent(metar_reports, "rawOb") = <<>>
            /\ RawTextsPresent(taf_reports, "rawTAF") = <<>>) => AICalls = 0
====
